---- MODULE Spec2Model ----
(***************************************************************************)
(* Data Examiner server (server.js): the in-memory conversation store, the *)
(* three analysis routes around the external collaborator call, the        *)
(* staged-upload lifecycle and the periodic housekeeping sweep.            *)
(***************************************************************************)
EXTENDS Integers, Sequences, FiniteSets, TLC

(***************************************************************************)
(* Program constants                                                       *)
(***************************************************************************)
\* addToConversation keeps the last 20 messages.
HistoryCap == 20
\* analyzeDataWithAI sends data.slice(0, 50) of an array.
SampleLimit == 50
\* the sweep acts when conversationStore.size > 100.
SweepThreshold == 100
\* prepareChartConfig charts data.slice(0, 50).
ChartRows == 50

(***************************************************************************)
(* Bounds of the model                                                     *)
(***************************************************************************)
\* addToConversation calls per session in SpecAppend (25 and more happen).
MaxAppends == 26
\* session ids a caller of addToConversation uses in SpecAppend.
NumAppendIds == 2
\* handler instances that can exist at once
MaxSlots == 2
\* requests in flight at once in Spec (SpecConc overlaps up to MaxSlots)
MaxInFlight == 1
\* session ids that clients supply in requests
NumClientIds == 1
\* requests received in Spec
MaxRequests == 2
\* follow-ups received in SpecConc (ten exchanges fill a session to the cap)
MaxConcRequests == 11
\* follow-ups of SpecConc that the client sends one after the other
SeqRequests == 7
\* requests received in SpecSweep (more than the sweep's threshold)
MaxSweepRequests == 103
\* records of the largest input (one more than the sample limit)
MaxRows == 51
\* requests received in SpecStore
MaxStoreRequests == 3
\* records of a dataset given to the client's analyzer in SpecClient
MaxDataRows == 2
\* labels of a chart given to the client's chart manager in SpecClient
MaxLabels == 8
\* values of a chart's series in SpecClient
MaxPoints == 3
\* Longest column handed to findMostCommon.
MaxColumn == 4
\* SpecRace: the exchanges a client has alone with the server, the sessions
\* other clients open after that, and the client's overlapping requests.
RaceWarmup == 10
RaceFill == 100
MaxRace == 2
\* queueRequest calls on the client.
MaxQueued == 4
\* follow-ups the returning client of SpecEvict sends on its session
MaxOwnFollowups == 1
\* the returning client comes back once the store is within ReturnWindow
\* sessions of the sweep's threshold
ReturnWindow == 3

Roles == {"user", "assistant"}

Min(a, b) == IF a <= b THEN a ELSE b

(***************************************************************************)
(* The store: a JavaScript Map, i.e. entries in insertion order.  set() on *)
(* a present key keeps its position, delete() removes the entry, a key set *)
(* again after delete() goes to the end.                                   *)
(***************************************************************************)
MapKeys(m) == [i \in 1..Len(m) |-> m[i].key]

MapHas(m, k) == \E i \in 1..Len(m) : m[i].key = k

MapGet(m, k) == m[CHOOSE i \in 1..Len(m) : m[i].key = k].val

MapSet(m, k, v) ==
    IF MapHas(m, k)
    THEN [i \in 1..Len(m) |-> IF m[i].key = k THEN [key |-> k, val |-> v] ELSE m[i]]
    ELSE Append(m, [key |-> k, val |-> v])

MapDelete(m, k) == SelectSeq(m, LAMBDA e : e.key # k)

MapSize(m) == Len(m)

\* getConversationContext: conversationStore.get(sessionId) || []
getConversationContext(store, sessionId) ==
    IF MapHas(store, sessionId) THEN MapGet(store, sessionId) ELSE <<>>

\* A plausible slip: the splice drops from the wrong end (keeps the first 20).
addToConversationKeepFirst(store, sessionId, role, content) ==
    LET s1 == IF ~MapHas(store, sessionId) THEN MapSet(store, sessionId, <<>>) ELSE store
        conversation == Append(MapGet(s1, sessionId), [role |-> role, content |-> content])
    IN  MapSet(s1, sessionId,
               IF Len(conversation) > HistoryCap
               THEN SubSeq(conversation, 1, HistoryCap)
               ELSE conversation)

\* A plausible slip: an append moves its session to the end of the Map
\* (delete, then set), as a least-recently-used store would.
addToConversationTouch(store, sessionId, role, content) ==
    LET conversation == Append(getConversationContext(store, sessionId),
                               [role |-> role, content |-> content])
    IN  MapSet(MapDelete(store, sessionId), sessionId,
               IF Len(conversation) > HistoryCap
               THEN SubSeq(conversation, Len(conversation) - HistoryCap + 1, Len(conversation))
               ELSE conversation)

\* addToConversation: create if absent, push, splice(0, length - 20) when over 20.
addToConversation(store, sessionId, role, content) ==
    LET s1 == IF ~MapHas(store, sessionId) THEN MapSet(store, sessionId, <<>>) ELSE store
        conversation == Append(MapGet(s1, sessionId), [role |-> role, content |-> content])
    IN  MapSet(s1, sessionId,
               IF Len(conversation) > HistoryCap
               THEN SubSeq(conversation, Len(conversation) - HistoryCap + 1, Len(conversation))
               ELSE conversation)

(***************************************************************************)
(* Inputs and values.  A request's question is identified by the number of *)
(* its exchange (xid), so every turn in the store can be told apart.       *)
(***************************************************************************)
NoId == 0
ClientIds == 1..NumClientIds
\* the n-th uuidv4() result: an id no client has supplied and none drawn before
Uuid(n) == NumClientIds + n

Slots == 1..MaxSlots

\* Parsed data, as far as the server looks at it: its shape (Array.isArray or
\* not), the number of records it holds, and whether a numeric column exists.
Data(shape, rows, numeric) == [shape |-> shape, rows |-> rows, numeric |-> numeric]
NoData == Data("none", 0, FALSE)

\* An uploaded file: the extension of its original name, whether its content
\* parses in the format the route picks for that extension, and what it holds.
File(ext, parses, json, rows, numeric) ==
    [ext |-> ext, parses |-> parses, json |-> json, rows |-> rows, numeric |-> numeric]
NoFile == File("none", FALSE, "none", 0, FALSE)

FileInputs ==
    {File("csv", TRUE, "none", MaxRows, TRUE), File("csv", TRUE, "none", 0, FALSE),
     File("xlsx", TRUE, "none", MaxRows, TRUE),
     File("json", TRUE, "array", SampleLimit, TRUE),
     File("json", TRUE, "object", 1, TRUE),
     File("json", FALSE, "none", 0, FALSE), File("xlsx", FALSE, "none", 0, FALSE)}

\* Pasted text of the text route: blank, a JSON array, a JSON object, or lines.
Text(kind, rows, numeric) == [kind |-> kind, rows |-> rows, numeric |-> numeric]
TextInputs ==
    {Text("blank", 0, FALSE), Text("object", 1, TRUE),
     Text("array", MaxRows, TRUE), Text("lines", SampleLimit, FALSE)}

Questions == {"missing", "blank", "ok"}

\* What the collaborator call ends in.  "unreachable": fetch rejects;
\* "http_error": response.ok is false; "bad_payload": response.json() rejects or
\* choices[0].message is missing; the others are answers, named by their fenced
\* json block: none, unparseable, the four recognised structures, or a JSON
\* value of no recognised structure.
FailureOutcomes == {"unreachable", "http_error", "bad_payload"}
ChartBlocks == {"chart", "data", "direct", "legacy"}
ParsedBlocks == ChartBlocks \cup {"unknown"}
AnswerOutcomes == ParsedBlocks \cup {"badjson", "none"}
Outcomes == FailureOutcomes \cup AnswerOutcomes

(***************************************************************************)
(* State                                                                   *)
(***************************************************************************)
VARIABLES
    conversationStore,  \* the Map sessionId -> array of {role, content}
    req,                \* per slot: the handler's position and locals
    res,                \* per slot: the response sent, once sent
    uploads,            \* per slot: the staged upload and the unlinkSync calls
    uuids,              \* uuidv4() calls so far
    started,            \* requests received so far
    appended,           \* history: every turn passed to addToConversation, per
                        \* session id, since the session was last created
    call,               \* the synchronous operation under observation (a store
                        \* route of the server, a function of the client): its
                        \* name, argument and result; NoCall when there is none
    api                 \* the client's DataExaminerAPI object: its request
                        \* queue and flag, the processQueue loops suspended at
                        \* their await, navigator.onLine, and the history of
                        \* the requests queued, started and resolved

vars == <<conversationStore, req, res, uploads, uuids, started, appended, call, api>>

reqVars == <<req, res, uploads, uuids, started>>

\* question, cid (the conversationId of the request body) and file are the
\* request's inputs, input the kind of the text of a text request; sid is
\* sessionIdToUse; outcome is how fetch() settled.
IdleReq ==
    [pc |-> "idle", route |-> "none", xid |-> 0, question |-> "none", cid |-> NoId,
     sid |-> NoId, followUp |-> FALSE, file |-> NoFile, localChart |-> FALSE,
     sample |-> 0, history |-> <<>>, outcome |-> "pending", input |-> "none"]

NoResponse == [status |-> 0, body |-> [success |-> FALSE]]

NoUpload == [staged |-> FALSE, exists |-> FALSE, unlinks |-> 0]

NoCall == [op |-> "none"]

\* The DataExaminerAPI object after its constructor, in a browser that is
\* online.  A request is identified by the number of its queueRequest call.
NewApi ==
    [requestQueue |-> <<>>, isProcessingQueue |-> FALSE, loops |-> <<>>, onLine |-> TRUE,
     queued |-> 0, log |-> <<>>, resolved |-> {}]

\* The last n elements of s (all of s when it is shorter).
LastN(s, n) == IF Len(s) <= n THEN s ELSE SubSeq(s, Len(s) - n + 1, Len(s))

Hist(sid) == IF sid \in DOMAIN appended THEN appended[sid] ELSE <<>>

Turn(role, content) == [role |-> role, content |-> content]

(***************************************************************************)
(* analyzeDataWithAI, up to the collaborator call                          *)
(***************************************************************************)
\* x || uuidv4(), after n earlier uuidv4() calls
OrUuid(x, n) == IF x # NoId THEN x ELSE Uuid(n + 1)

UuidsAfter(x, n) == IF x # NoId THEN n ELSE n + 1

\* const sample = Array.isArray(data) ? data.slice(0, 50) : data
\* (the number of records of the sample)
Sample(data) == IF data.shape = "array" THEN Min(data.rows, SampleLimit) ELSE data.rows

\* prepareChartConfig returns a chart (not null): a non-empty array of records
\* with a numeric column.
HasLocalChart(data) == data.shape = "array" /\ data.rows > 0 /\ data.numeric

\* A plausible slip: the stored turns are not read for a follow-up either.
ConversationHistoryNone(store, sessionIdToUse, isFollowUp) == <<>>

\* conversationHistory = isFollowUp ? getConversationContext(sessionIdToUse) : []
\* its elements are copied into messages before the call is made.
ConversationHistory(store, sessionIdToUse, isFollowUp) ==
    IF isFollowUp THEN getConversationContext(store, sessionIdToUse) ELSE <<>>

\* The handler of slot p has built messages and awaits fetch().
Awaiting(p, route, xid, cid, data, sessionId, isFollowUp, n) ==
    LET sessionIdToUse == OrUuid(sessionId, n)
    IN  [pc |-> "awaiting", route |-> route, xid |-> xid, question |-> "ok", cid |-> cid,
         sid |-> sessionIdToUse, followUp |-> isFollowUp, file |-> NoFile,
         localChart |-> HasLocalChart(data), sample |-> Sample(data),
         history |-> ConversationHistory(conversationStore, sessionIdToUse, isFollowUp),
         outcome |-> "pending", input |-> "none"]

Done(r) ==
    [r EXCEPT !.pc = "done", !.file = NoFile, !.history = <<>>, !.sample = 0,
              !.followUp = FALSE, !.input = "none"]

\* A request answered before any collaborator call.
Rejected(route, xid, q, cid) ==
    Done([IdleReq EXCEPT !.route = route, !.xid = xid, !.question = q, !.cid = cid])

Response(status, body) == [status |-> status, body |-> body]

ErrorBody(message) == [success |-> FALSE, error |-> message]

\* The least idle slot takes the next request.
FreeSlot(p) == req[p].pc = "idle" /\ \A q \in Slots : q < p => req[q].pc # "idle"

(***************************************************************************)
(* POST /api/analyze/file                                                  *)
(***************************************************************************)
\* fs.unlinkSync(filePath)
unlinkSync(up) == [up EXCEPT !.exists = FALSE, !.unlinks = @ + 1]

\* The parse the route picks by the file's name: parseCSV gives an array of
\* rows, parseExcel an object of sheets, JSON.parse whatever the document is.
ParsedFile(f) ==
    CASE f.ext = "csv" -> Data("array", f.rows, f.numeric)
      [] f.ext = "xlsx" -> Data("sheets", f.rows, f.numeric)
      [] OTHER -> Data(f.json, f.rows, f.numeric)

\* multer stages the upload (upload.single); without a file the handler
\* answers 400 at once.
SubmitFile(p, f, cid) ==
    /\ FreeSlot(p)
    /\ started' = started + 1
    /\ IF f = NoFile
       THEN /\ req' = [req EXCEPT ![p] = Rejected("file", started + 1, "ok", cid)]
            /\ res' = [res EXCEPT ![p] = Response(400, ErrorBody("No file uploaded"))]
            /\ UNCHANGED uploads
       ELSE /\ req' = [req EXCEPT ![p] = [IdleReq EXCEPT !.pc = "uploaded", !.route = "file",
                                                        !.xid = started + 1, !.cid = cid,
                                                        !.question = "ok", !.file = f]]
            /\ uploads' = [uploads EXCEPT ![p] = [staged |-> TRUE, exists |-> TRUE,
                                                  unlinks |-> 0]]
            /\ UNCHANGED res
    /\ UNCHANGED <<conversationStore, appended, uuids, call, api>>

\* A plausible slip: the catch block answers without removing the staged file.
FileParseFailedNoUnlink(p) ==
    /\ uploads' = uploads
    /\ req' = [req EXCEPT ![p] = Done(@)]
    /\ res' = [res EXCEPT ![p] = Response(500, ErrorBody("parse error"))]
    /\ UNCHANGED uuids

\* catch (err): unlink the staged file, answer 500.
FileParseFailed(p) ==
    /\ uploads' = [uploads EXCEPT ![p] = unlinkSync(@)]
    /\ req' = [req EXCEPT ![p] = Done(@)]
    /\ res' = [res EXCEPT ![p] = Response(500, ErrorBody("parse error"))]
    /\ UNCHANGED uuids

\* The handler proper: parse, unlink, then analyzeDataWithAI(data, question,
\* sessionId, false) up to its fetch().
HandleFile(p) ==
    /\ req[p].pc = "uploaded"
    /\ IF ~req[p].file.parses
       THEN FileParseFailed(p)
       ELSE LET data == ParsedFile(req[p].file)
                sessionId == OrUuid(req[p].cid, uuids)
            IN  /\ uploads' = [uploads EXCEPT ![p] = unlinkSync(@)]
                /\ uuids' = UuidsAfter(req[p].cid, uuids)
                /\ req' = [req EXCEPT ![p] =
                              Awaiting(p, "file", req[p].xid, req[p].cid, data, sessionId,
                                       FALSE, uuids')]
                /\ UNCHANGED res
    /\ UNCHANGED <<conversationStore, appended, started, call, api>>

(***************************************************************************)
(* POST /api/analyze/text                                                  *)
(***************************************************************************)
UserTurns(turns) == SelectSeq(turns, LAMBDA t : t.role = "user")

\* dataToSend: the parsed text, its lines, or for blank text the last three
\* user messages of the stored conversation (a placeholder string if none).
TextData(store, text, conversationId) ==
    CASE text.kind = "array" -> Data("array", text.rows, text.numeric)
      [] text.kind = "lines" -> Data("array", text.rows, FALSE)
      [] text.kind = "object" -> Data("object", text.rows, text.numeric)
      [] OTHER ->
            LET conversationHistory == getConversationContext(store, conversationId)
            IN  IF Len(conversationHistory) > 0
                THEN Data("array", Len(LastN(UserTurns(conversationHistory), 3)), FALSE)
                ELSE Data("string", 0, FALSE)

SubmitText(p, q, text, cid) ==
    /\ FreeSlot(p)
    /\ started' = started + 1
    /\ IF q # "ok"
       THEN /\ req' = [req EXCEPT ![p] = Rejected("text", started + 1, q, cid)]
            /\ res' = [res EXCEPT ![p] = Response(400, ErrorBody("No question provided"))]
            /\ UNCHANGED uuids
       ELSE LET data == TextData(conversationStore, text, cid)
                sessionId == OrUuid(cid, uuids)
            IN  /\ uuids' = UuidsAfter(cid, uuids)
                /\ req' = [req EXCEPT ![p] =
                              [Awaiting(p, "text", started + 1, cid, data, sessionId,
                                        cid # NoId, uuids')
                                  EXCEPT !.input = text.kind]]
                /\ UNCHANGED res
    /\ UNCHANGED <<conversationStore, appended, uploads, call, api>>

(***************************************************************************)
(* POST /api/chat/followup                                                 *)
(***************************************************************************)
\* A plausible slip: the check of the conversation id is left out.
FollowupRejectedNoIdCheck(q, cid) == q # "ok"

\* A plausible slip: a conversation id that the store does not hold is
\* refused as well.
FollowupRejectedUnknownId(q, cid) ==
    q # "ok" \/ cid = NoId \/ ~MapHas(conversationStore, cid)

\* !question?.trim() or !conversationId
FollowupRejected(q, cid) == q # "ok" \/ cid = NoId

SubmitFollowup(p, q, cid) ==
    /\ FreeSlot(p)
    /\ started' = started + 1
    /\ IF FollowupRejected(q, cid)
       THEN /\ req' = [req EXCEPT ![p] = Rejected("followup", started + 1, q, cid)]
            /\ res' = [res EXCEPT ![p] =
                          Response(400, ErrorBody(IF q # "ok" THEN "No question provided"
                                                  ELSE "No conversation ID provided"))]
            /\ UNCHANGED uuids
       ELSE \* dataContext is a string built from the stored assistant turns
            /\ uuids' = UuidsAfter(cid, uuids)
            /\ req' = [req EXCEPT ![p] =
                          Awaiting(p, "followup", started + 1, cid,
                                   Data("string", 0, FALSE), cid, TRUE, uuids')]
            /\ UNCHANGED res
    /\ UNCHANGED <<conversationStore, appended, uploads, call, api>>

(***************************************************************************)
(* analyzeDataWithAI, from the collaborator's reply on                     *)
(***************************************************************************)
\* { ...a, ...b }: b's fields override a's
Spread(a, b) ==
    [k \in DOMAIN a \cup DOMAIN b |-> IF k \in DOMAIN b THEN b[k] ELSE a[k]]

\* The result for an answer whose fenced json block is `block`.
AiSuccess(block, sessionIdToUse) ==
    [success |-> TRUE,
     analysis |-> IF block \in ParsedBlocks THEN "stripped" ELSE "full",
     chartData |-> IF block \in ChartBlocks THEN "collab" ELSE "null",
     chartTitle |-> IF block \in {"chart", "data", "legacy"} THEN "collab"
                    ELSE "Data Visualization",
     chartType |-> IF block \in {"chart", "data"} THEN "collab" ELSE "auto",
     conversationId |-> sessionIdToUse]

\* A plausible slip: the catch block's result carries no session id.
AiFailureNoId(sessionId) ==
    [success |-> FALSE, analysis |-> "apology", chartData |-> "null",
     chartTitle |-> "Error", chartType |-> "auto", conversationId |-> NoId]

\* The result of the catch block.
AiFailure(sessionId) ==
    [success |-> FALSE, analysis |-> "apology", chartData |-> "null",
     chartTitle |-> "Error", chartType |-> "auto", conversationId |-> sessionId]

\* A plausible slip: only the assistant's turn is stored.
StoreExchangeAssistantOnly(store, r) ==
    addToConversation(store, r.sid, "assistant", r.xid)

\* A plausible slip: the turns are added to the history read before the call
\* and the result is written back (a read-modify-write across the await).
StoreExchangeStale(store, r) ==
    MapSet(store, r.sid,
           LastN(r.history \o <<Turn("user", r.xid), Turn("assistant", r.xid)>>,
                 HistoryCap))

\* A plausible slip: the two calls in the wrong order.
StoreExchangeAnswerFirst(store, r) ==
    addToConversation(addToConversation(store, r.sid, "assistant", r.xid),
                      r.sid, "user", r.xid)

\* addToConversation(sessionIdToUse, 'user', question);
\* addToConversation(sessionIdToUse, 'assistant', cleanedContent);
\* (r: the handler's locals)
StoreExchange(store, r) ==
    addToConversation(addToConversation(store, r.sid, "user", r.xid),
                      r.sid, "assistant", r.xid)

\* What the route sends: the file route spreads the result over success:true.
RouteBody(route, result) ==
    IF route = "file" THEN Spread([success |-> TRUE], result) ELSE result

\* A plausible slip: the user's turn is stored before the call is made, so
\* that it stays when the call fails.
CollabReplyUserFirst(p, outcome) ==
    /\ req[p].pc = "awaiting"
    /\ req' = [req EXCEPT ![p] = Done([@ EXCEPT !.outcome = outcome])]
    /\ IF outcome \in FailureOutcomes
       THEN /\ res' = [res EXCEPT ![p] =
                          Response(200, RouteBody(req[p].route, AiFailure(req[p].sid)))]
            /\ conversationStore' =
                   addToConversation(conversationStore, req[p].sid, "user", req[p].xid)
            /\ appended' = (req[p].sid :> (Hist(req[p].sid) \o <<Turn("user", req[p].xid)>>))
                           @@ appended
       ELSE /\ conversationStore' = StoreExchange(conversationStore, req[p])
            /\ appended' = (req[p].sid :> (Hist(req[p].sid)
                                              \o <<Turn("user", req[p].xid),
                                                   Turn("assistant", req[p].xid)>>))
                           @@ appended
            /\ res' = [res EXCEPT ![p] =
                          Response(200, RouteBody(req[p].route,
                                                  AiSuccess(outcome, req[p].sid)))]
    /\ UNCHANGED <<uploads, uuids, started, call, api>>

\* fetch() settles and the handler runs to its response without suspending.
CollabReply(p, outcome) ==
    /\ req[p].pc = "awaiting"
    /\ req' = [req EXCEPT ![p] = Done([@ EXCEPT !.outcome = outcome])]
    /\ IF outcome \in FailureOutcomes
       THEN /\ res' = [res EXCEPT ![p] =
                          Response(200, RouteBody(req[p].route, AiFailure(req[p].sid)))]
            /\ UNCHANGED <<conversationStore, appended>>
       ELSE /\ conversationStore' = StoreExchange(conversationStore, req[p])
            /\ appended' = (req[p].sid :> (Hist(req[p].sid)
                                              \o <<Turn("user", req[p].xid),
                                                   Turn("assistant", req[p].xid)>>))
                           @@ appended
            /\ res' = [res EXCEPT ![p] =
                          Response(200, RouteBody(req[p].route,
                                                  AiSuccess(outcome, req[p].sid)))]
    /\ UNCHANGED <<uploads, uuids, started, call, api>>

\* The client has its response; the slot is free for the next request.
Deliver(p) ==
    /\ req[p].pc = "done"
    /\ req' = [req EXCEPT ![p] = IdleReq]
    /\ res' = [res EXCEPT ![p] = NoResponse]
    /\ uploads' = [uploads EXCEPT ![p] = NoUpload]
    /\ UNCHANGED <<conversationStore, appended, uuids, started, call, api>>

(***************************************************************************)
(* DELETE /api/conversation/:sessionId and the housekeeping timer          *)
(***************************************************************************)
Forget(hist, ids) == [k \in DOMAIN hist \ ids |-> hist[k]]

ClearConversation(sid) ==
    /\ conversationStore' = MapDelete(conversationStore, sid)
    /\ appended' = Forget(appended, {sid})
    /\ UNCHANGED <<reqVars, call, api>>

RECURSIVE DeleteAll(_, _)
\* toDelete.forEach(key => conversationStore.delete(key))
DeleteAll(store, toDelete) ==
    IF toDelete = <<>> THEN store
    ELSE DeleteAll(MapDelete(store, Head(toDelete)), Tail(toDelete))

\* A plausible slip: the newest half is deleted instead of the oldest.
SweepStoreNewest(store) ==
    IF MapSize(store) > SweepThreshold
    THEN LET keys == MapKeys(store)
         IN  DeleteAll(store, SubSeq(keys, Len(keys) - (Len(keys) \div 2) + 1, Len(keys)))
    ELSE store

\* if (size > 100) delete keys.slice(0, Math.floor(keys.length / 2))
SweepStore(store) ==
    IF MapSize(store) > SweepThreshold
    THEN LET keys == MapKeys(store)
         IN  DeleteAll(store, SubSeq(keys, 1, Len(keys) \div 2))
    ELSE store

KeySet(store) == {store[i].key : i \in 1..Len(store)}

Sweep ==
    /\ conversationStore' = SweepStore(conversationStore)
    /\ appended' = Forget(appended, KeySet(conversationStore) \ KeySet(conversationStore'))
    /\ UNCHANGED <<reqVars, call, api>>

(***************************************************************************)
(* Spec: the server from start-up, every route and every outcome, with at  *)
(* most MaxInFlight requests in flight and MaxRequests requests in all.    *)
(***************************************************************************)
Init ==
    /\ conversationStore = <<>>
    /\ req = [p \in Slots |-> IdleReq]
    /\ res = [p \in Slots |-> NoResponse]
    /\ uploads = [p \in Slots |-> NoUpload]
    /\ uuids = 0
    /\ started = 0
    /\ appended = [k \in {} |-> <<>>]
    /\ call = NoCall
    /\ api = NewApi

InFlight == Cardinality({p \in Slots : req[p].pc # "idle"})

\* res.json() ends the handler's turn: the response is out before any other
\* callback runs, and nothing the server does later reads it.
Quiet == \A p \in Slots : req[p].pc # "done"

\* A further request may arrive.
Arrival == Quiet /\ started < MaxRequests /\ InFlight < MaxInFlight

Next ==
    \/ \E p \in Slots, f \in FileInputs \cup {NoFile}, cid \in ClientIds \cup {NoId} :
          Arrival /\ SubmitFile(p, f, cid)
    \/ \E p \in Slots : Quiet /\ HandleFile(p)
    \/ \E p \in Slots, q \in Questions, text \in TextInputs, cid \in ClientIds \cup {NoId} :
          Arrival /\ SubmitText(p, q, text, cid)
    \/ \E p \in Slots, q \in Questions, cid \in ClientIds \cup {NoId} :
          Arrival /\ SubmitFollowup(p, q, cid)
    \/ \E p \in Slots, outcome \in Outcomes : Quiet /\ CollabReply(p, outcome)
    \/ \E p \in Slots : Deliver(p)
    \/ \E sid \in ClientIds : Quiet /\ ClearConversation(sid)
    \/ Quiet /\ Sweep

Spec == Init /\ [][Next]_vars

\* The server's own steps are taken once enabled (the event loop runs every
\* ready callback); nothing obliges the collaborator to answer or a client
\* to send a request.
FairSpec == Spec /\ \A p \in Slots : WF_vars(HandleFile(p))

(***************************************************************************)
(* Claims about the routes (Spec, FairSpec)                                *)
(***************************************************************************)
\* C3: when the collaborator call fails (unreachable, non-success status,
\* unreadable payload) the response of the file, text and follow-up routes
\* still reports success, with an analysis built from local statistics and
\* the locally computed chart when there is one.
C3_FailureStillReportsSuccess ==
    \A p \in Slots :
        (req[p].pc = "done" /\ req[p].outcome \in FailureOutcomes) =>
            /\ res[p].status = 200
            /\ res[p].body.success = TRUE
            /\ res[p].body.analysis = "local statistics"
            /\ (req[p].localChart => res[p].body.chartData = "local")

\* C4: every request that reaches the collaborator call is eventually
\* answered, even if the collaborator never replies.
C4_CollaboratorCallReturns ==
    \A p \in Slots : (req[p].pc = "awaiting") ~> (req[p].pc = "done")

\* C5: an answer whose fenced json block does not parse is still a success:
\* the response carries the analysis text and no chart, and the exchange
\* (question, then answer) is appended to the session.
C5_BadChartBlockSwallowed ==
    [][\A p \in Slots :
          (req[p].pc = "awaiting" /\ req'[p].pc = "done" /\ req'[p].outcome = "badjson") =>
              /\ res'[p].status = 200
              /\ res'[p].body.success = TRUE
              /\ res'[p].body.analysis = "full"
              /\ res'[p].body.chartData = "null"
              /\ res'[p].body.conversationId = req[p].sid
              /\ MapHas(conversationStore', req[p].sid)
              /\ LastN(MapGet(conversationStore', req[p].sid), 2)
                    = <<Turn("user", req[p].xid), Turn("assistant", req[p].xid)>>]_vars

\* A request answered after an unparseable chart block, its exchange stored.
C5_Witness ==
    \E p \in Slots :
        /\ req[p].pc = "done" /\ req[p].outcome = "badjson"
        /\ res[p].body.success = TRUE /\ res[p].body.chartData = "null"
        /\ MapHas(conversationStore, req[p].sid)
        /\ LastN(MapGet(conversationStore, req[p].sid), 2)
              = <<Turn("user", req[p].xid), Turn("assistant", req[p].xid)>>

\* C6: the returned chart is the collaborator's when its answer holds a valid
\* chart description; otherwise it is the locally computed chart whenever the
\* data has one, never an empty chart.
C6_ChartReconciled ==
    \A p \in Slots :
        (req[p].pc = "done" /\ req[p].outcome \in AnswerOutcomes) =>
            /\ req[p].outcome \in ChartBlocks => res[p].body.chartData = "collab"
            /\ (req[p].outcome \notin ChartBlocks /\ req[p].localChart) =>
                  res[p].body.chartData = "local"

BadFollowup(r) == r.route = "followup" /\ (r.question # "ok" \/ r.cid = NoId)

\* C7: a follow-up with a missing or blank question, or without a session id,
\* is answered with a validation error (400) without a collaborator call, and
\* the step that rejects it leaves the store as it was.
C7_FollowupValidated ==
    /\ [](\A p \in Slots :
            BadFollowup(req[p]) =>
                /\ req[p].pc = "done"
                /\ req[p].outcome = "pending"
                /\ res[p].status = 400
                /\ res[p].body.success = FALSE)
    /\ [][\A p \in Slots :
            (req[p].pc = "idle" /\ BadFollowup(req'[p])) =>
                conversationStore' = conversationStore]_vars

\* A follow-up on a stored session rejected for its blank question.
C7_Witness ==
    \E p \in Slots :
        /\ BadFollowup(req[p]) /\ req[p].question = "blank"
        /\ MapHas(conversationStore, req[p].cid)
        /\ res[p].status = 400
        /\ res[p].body.error = "No question provided"

\* C8: a staged upload is there until the handler has parsed (or failed to
\* parse) it and is gone before the collaborator is called and before any
\* response is sent; unlinkSync runs exactly once per request.
C8_StagedFileRemovedOnce ==
    \A p \in Slots :
        uploads[p].staged =>
            /\ uploads[p].unlinks <= 1
            /\ req[p].pc = "uploaded" => (uploads[p].exists /\ uploads[p].unlinks = 0)
            /\ req[p].pc \in {"awaiting", "done"} =>
                  (~uploads[p].exists /\ uploads[p].unlinks = 1)

\* An upload that did not parse, answered 500, removed by one unlinkSync.
C8_Witness ==
    \E p \in Slots :
        /\ uploads[p].staged /\ req[p].pc = "done" /\ res[p].status = 500
        /\ ~uploads[p].exists /\ uploads[p].unlinks = 1

\* C9: every request submitted to the collaborator carries at most 50 records
\* of data and at most 20 prior turns.
C9_PayloadBounded ==
    \A p \in Slots :
        req[p].pc = "awaiting" =>
            /\ req[p].sample <= SampleLimit
            /\ Len(req[p].history) <= HistoryCap

(***************************************************************************)
(* SpecConc: exchanges on one session  from start-up until the session is  *)
(* past its cap.  The client sends its first SeqRequests follow-ups one    *)
(* after the other and each is answered; from then on follow-ups overlap   *)
(* and the collaborator may fail.                                          *)
(***************************************************************************)
ConcOutcomes == {"none", "unreachable"}

AllIdle == \A p \in Slots : req[p].pc = "idle"

NextConc ==
    \/ \E p \in Slots :
          /\ started < MaxConcRequests
          /\ started < SeqRequests => AllIdle
          /\ \/ SubmitFollowup(p, "ok", 1)
             \/ SubmitText(p, "ok", Text("blank", 0, FALSE), 1)
    \/ \E p \in Slots, outcome \in ConcOutcomes :
          /\ started <= SeqRequests => outcome \notin FailureOutcomes
          /\ CollabReply(p, outcome)
    \/ \E p \in Slots : Deliver(p)

SpecConc == Init /\ [][NextConc]_vars

\* Every exchange's user turn is directly followed by its assistant turn, and
\* no exchange occurs twice.
PairsIntact(turns) ==
    /\ Len(turns) % 2 = 0
    /\ \A i \in 1..Len(turns) :
          turns[i] = Turn(IF i % 2 = 1 THEN "user" ELSE "assistant",
                          turns[IF i % 2 = 1 THEN i ELSE i - 1].content)
    /\ \A i, j \in 1..Len(turns) :
          (i % 2 = 1 /\ j % 2 = 1 /\ i # j) => turns[i].content # turns[j].content

\* C2 as stated: whatever the interleaving of the exchanges of a session, its
\* turn list is the pairs of all the exchanges that succeeded, in the order in
\* which they completed (a serial order): no pair is split and no turn is lost.
C2_NoTurnLost ==
    \A i \in 1..Len(conversationStore) :
        LET e == conversationStore[i]
        IN  PairsIntact(e.val) /\ e.val = Hist(e.key)

\* C2, amended: the turn list is the last 20 turns of that serial history; no
\* pair is split, and only the oldest turns, evicted at the cap, are missing.
C2_SerialWithinCap ==
    \A i \in 1..Len(conversationStore) :
        LET e == conversationStore[i]
        IN  /\ PairsIntact(e.val)
            /\ e.val = LastN(Hist(e.key), HistoryCap)
            /\ \A p \in Slots :
                  (req[p].pc = "awaiting" /\ req[p].sid = e.key) =>
                      \A j \in 1..Len(e.val) : e.val[j].content # req[p].xid

\* A full session in which an exchange that started later was stored before
\* one that started earlier (so the two were in flight together), with older
\* turns evicted.
C2_Witness ==
    \E i \in 1..Len(conversationStore) :
        LET e == conversationStore[i]
        IN  /\ Len(e.val) = HistoryCap
            /\ Len(Hist(e.key)) > HistoryCap
            /\ e.val[HistoryCap].content < e.val[HistoryCap - 2].content

(***************************************************************************)
(* SpecSweep: clients open sessions one after the other from start-up,     *)
(* each with one answered exchange, until the store is past the sweep's    *)
(* threshold; most take a fresh id, one client brings its own id whenever  *)
(* the store does not hold it.  The timer fires at any time.               *)
(***************************************************************************)
SweepText == Text("lines", SampleLimit, FALSE)

NextSweep ==
    \/ \E p \in Slots :
          /\ started < MaxSweepRequests
          /\ AllIdle
          /\ SubmitText(p, "ok", SweepText, NoId)
    \/ \E p \in Slots :
          /\ started < MaxSweepRequests
          /\ AllIdle
          /\ ~MapHas(conversationStore, 1)
          /\ SubmitText(p, "ok", SweepText, 1)
    \/ \E p \in Slots : CollabReply(p, "none")
    \/ \E p \in Slots : Deliver(p)
    \/ Sweep

SpecSweep == Init /\ [][NextSweep]_vars

\* C10: the sweep, run on a store of n sessions, deletes exactly the
\* floor(n/2) sessions inserted first when n > 100 and keeps the others, in
\* order and with their turns; when n <= 100 it changes nothing.  (In
\* SpecSweep the timer's steps are those that leave every request as it is.)
C10_SweepDeletesOldestHalf ==
    [][UNCHANGED reqVars =>
          LET n == Len(conversationStore)
          IN  IF n > 100
              THEN conversationStore' = SubSeq(conversationStore, (n \div 2) + 1, n)
              ELSE conversationStore' = conversationStore]_vars

\* After 101 sessions a sweep has left 51: the first fresh session is gone,
\* and the client's own session, opened later than that one, is still there.
C10_Witness ==
    /\ started = 101
    /\ Len(conversationStore) = 51
    /\ ~MapHas(conversationStore, Uuid(1))
    /\ MapHas(conversationStore, 1)
    /\ Len(MapGet(conversationStore, 1)) = 2

(***************************************************************************)
(* SpecAppend: any sequence of addToConversation calls.  The k-th call on  *)
(* a session carries content k, so that lost, duplicated or reordered      *)
(* turns show; roles follow the caller's pattern (user, assistant, ...).   *)
(***************************************************************************)
AppendIds == 1..NumAppendIds

InitAppend ==
    /\ conversationStore = <<>>
    /\ req = [p \in Slots |-> IdleReq]
    /\ res = [p \in Slots |-> NoResponse]
    /\ uploads = [p \in Slots |-> NoUpload]
    /\ uuids = 0
    /\ started = 0
    /\ appended = [s \in AppendIds |-> <<>>]
    /\ call = NoCall
    /\ api = NewApi

AppendCall(sid) ==
    /\ Len(appended[sid]) < MaxAppends
    /\ LET k == Len(appended[sid]) + 1
           role == IF k % 2 = 1 THEN "user" ELSE "assistant"
       IN  /\ conversationStore' = addToConversation(conversationStore, sid, role, k)
           /\ appended' = [appended EXCEPT ![sid] = Append(@, Turn(role, k))]
           /\ UNCHANGED <<reqVars, call, api>>

NextAppend == \E sid \in AppendIds : AppendCall(sid)

SpecAppend == InitAppend /\ [][NextAppend]_vars

\* C1: after any sequence of addToConversation calls on a session id its turn
\* list has at most 20 turns and is exactly the last min(n, 20) appended turns,
\* in arrival order; after 25 calls it holds the turns 6..25.
C1_LastTwentyInOrder ==
    /\ \A i \in 1..Len(conversationStore) :
          LET e == conversationStore[i]
          IN  /\ Len(e.val) <= HistoryCap
              /\ Len(e.val) = Min(Len(appended[e.key]), HistoryCap)
              /\ e.val = LastN(appended[e.key], HistoryCap)
    /\ \A sid \in AppendIds :
          /\ Len(appended[sid]) > 0 => MapHas(conversationStore, sid)
          /\ Len(appended[sid]) = 25 =>
                [i \in 1..20 |-> MapGet(conversationStore, sid)[i].content]
                    = [i \in 1..20 |-> i + 5]

\* 25 calls on one session: 20 turns are left, the oldest is turn 6.
C1_Witness ==
    \E sid \in AppendIds :
        /\ Len(appended[sid]) = 25
        /\ MapHas(conversationStore, sid)
        /\ Len(MapGet(conversationStore, sid)) = 20
        /\ MapGet(conversationStore, sid)[1].content = 6
        /\ MapGet(conversationStore, sid)[20].content = 25

(***************************************************************************)
(* SpecEvict: one client opens its session first; other clients open fresh *)
(* sessions, one request after the other, until the store is past the      *)
(* sweep's threshold; once the store is within ReturnWindow sessions of    *)
(* the threshold the first client comes back to its session with up to     *)
(* MaxOwnFollowups follow-ups.  The timer fires at any time.               *)
(***************************************************************************)
NextEvict ==
    \/ \E p \in Slots :
          /\ started = 0
          /\ SubmitText(p, "ok", SweepText, 1)
    \/ \E p \in Slots :
          /\ started > 0 /\ started < MaxSweepRequests
          /\ AllIdle
          /\ SubmitText(p, "ok", SweepText, NoId)
    \/ \E p \in Slots :
          /\ started > 0 /\ started < MaxSweepRequests
          /\ AllIdle
          /\ Len(conversationStore) > SweepThreshold - ReturnWindow
          /\ Len(Hist(1)) < 2 * (1 + MaxOwnFollowups)
          /\ SubmitFollowup(p, "ok", 1)
    \/ \E p \in Slots : CollabReply(p, "none")
    \/ \E p \in Slots : Deliver(p)
    \/ Sweep

SpecEvict == Init /\ [][NextEvict]_vars

\* C11: a step that deletes no session (an append to an existing session
\* among them) leaves every session at its position in the Map, and a sweep
\* that acts deletes the session at the first position, however recently
\* that session was appended to.
C11_AppendKeepsEvictionOrder ==
    /\ [][Len(conversationStore') >= Len(conversationStore) =>
             \A i \in 1..Len(conversationStore) :
                 conversationStore'[i].key = conversationStore[i].key]_vars
    /\ [][(UNCHANGED reqVars /\ Len(conversationStore) > SweepThreshold) =>
             ~MapHas(conversationStore', conversationStore[1].key)]_vars

\* The sweep has just deleted session 1 although the latest exchange (its
\* response not yet delivered) was appended to it, and every survivor holds
\* only the two turns of the exchange that created it.
C11_Witness ==
    \E p \in Slots :
        /\ req[p].pc = "done" /\ req[p].outcome = "none"
        /\ req[p].route = "followup" /\ req[p].sid = 1 /\ req[p].xid = started
        /\ ~MapHas(conversationStore, 1)
        /\ Len(conversationStore) = 51
        /\ \A i \in 1..Len(conversationStore) :
              /\ Len(conversationStore[i].val) = 2
              /\ conversationStore[i].val[1].content = conversationStore[i].val[2].content

(***************************************************************************)
(* SpecStore: the store's own routes (GET and DELETE                       *)
(* /api/conversation/:sessionId, GET /api/health) at any moment between    *)
(* the steps of exchanges that clients send one after the other.  A store  *)
(* route runs to its response in one step; the response is observed before *)
(* the next step.                                                          *)
(***************************************************************************)
\* ids asked for: the clients' own and the first two the server draws
StoreIds == ClientIds \cup {Uuid(1), Uuid(2)}

\* A plausible slip: the lookup creates the session it does not find.
GetConversationCreating(sessionId) ==
    /\ call = NoCall
    /\ call' = [op |-> "get", arg |-> sessionId,
                out |-> Response(200, [success |-> TRUE,
                                       conversation |->
                                           getConversationContext(conversationStore,
                                                                  sessionId)])]
    /\ conversationStore' = IF MapHas(conversationStore, sessionId) THEN conversationStore
                            ELSE MapSet(conversationStore, sessionId, <<>>)
    /\ UNCHANGED <<reqVars, appended, api>>

\* GET /api/conversation/:sessionId
GetConversation(sessionId) ==
    /\ call = NoCall
    /\ call' = [op |-> "get", arg |-> sessionId,
                out |-> Response(200, [success |-> TRUE,
                                       conversation |->
                                           getConversationContext(conversationStore,
                                                                  sessionId)])]
    /\ UNCHANGED <<conversationStore, reqVars, appended, api>>

\* A plausible slip: the route answers without deleting.
DeleteConversationNoop(sessionId) ==
    /\ call = NoCall
    /\ call' = [op |-> "delete", arg |-> sessionId,
                out |-> Response(200, [success |-> TRUE, message |-> "Conversation cleared"])]
    /\ UNCHANGED <<conversationStore, reqVars, appended, api>>

\* DELETE /api/conversation/:sessionId, with its response
DeleteConversation(sessionId) ==
    /\ call = NoCall
    /\ conversationStore' = MapDelete(conversationStore, sessionId)
    /\ appended' = Forget(appended, {sessionId})
    /\ call' = [op |-> "delete", arg |-> sessionId,
                out |-> Response(200, [success |-> TRUE, message |-> "Conversation cleared"])]
    /\ UNCHANGED <<reqVars, api>>

\* GET /api/health (uptime left out)
Health ==
    /\ call = NoCall
    /\ call' = [op |-> "health", arg |-> NoId,
                out |-> [status |-> "ok", conversations |-> MapSize(conversationStore)]]
    /\ UNCHANGED <<conversationStore, reqVars, appended, api>>

\* The caller has the result.
Observed ==
    /\ call # NoCall
    /\ call' = NoCall
    /\ UNCHANGED <<conversationStore, reqVars, appended, api>>

NextStore ==
    \/ \E p \in Slots, cid \in ClientIds \cup {NoId} :
          /\ call = NoCall /\ AllIdle /\ started < MaxStoreRequests
          /\ SubmitText(p, "ok", SweepText, cid)
    \/ \E p \in Slots, outcome \in ConcOutcomes : call = NoCall /\ CollabReply(p, outcome)
    \/ \E p \in Slots : call = NoCall /\ Deliver(p)
    \/ \E sid \in StoreIds : GetConversation(sid)
    \/ \E sid \in StoreIds : DeleteConversation(sid)
    \/ Health
    \/ Observed

SpecStore == Init /\ [][NextStore]_vars

\* C12: the GET route always answers 200 with success; the conversation it
\* returns is the turns appended to that id since the session was created,
\* in append order (the last 20 of them), and the empty list when the store
\* does not hold the id; the step changes nothing in the store, so no session
\* is created and the session count stays the same.
C12_GetNeverFailsNorChanges ==
    /\ [](call.op = "get" =>
            /\ call.out.status = 200
            /\ call.out.body.success = TRUE
            /\ call.out.body.conversation = LastN(Hist(call.arg), HistoryCap)
            /\ ~MapHas(conversationStore, call.arg) => call.out.body.conversation = <<>>)
    /\ [][call'.op = "get" =>
             /\ conversationStore' = conversationStore
             /\ MapSize(conversationStore') = MapSize(conversationStore)]_vars

\* A lookup of an id the store does not hold, answered with the empty list
\* while the store holds another session of two exchanges.
C12_Witness ==
    /\ call.op = "get"
    /\ ~MapHas(conversationStore, call.arg)
    /\ call.out.body.conversation = <<>>
    /\ Len(conversationStore) = 1
    /\ Len(conversationStore[1].val) = 4

\* C13: the DELETE route answers success and leaves the store without the
\* session: a lookup directly afterwards finds nothing, the session count is
\* one lower if the store held the id and the same if it did not, and every
\* other session is still there with its turns.
C13_ClearRemovesOnlyThatSession ==
    /\ [](call.op = "delete" =>
            /\ call.out.status = 200 /\ call.out.body.success = TRUE
            /\ getConversationContext(conversationStore, call.arg) = <<>>)
    /\ [][call'.op = "delete" =>
             LET sid == call'.arg
             IN  /\ ~MapHas(conversationStore', sid)
                 /\ MapSize(conversationStore')
                       = MapSize(conversationStore)
                             - (IF MapHas(conversationStore, sid) THEN 1 ELSE 0)
                 /\ \A i \in 1..Len(conversationStore) :
                       conversationStore[i].key # sid =>
                           /\ MapHas(conversationStore', conversationStore[i].key)
                           /\ MapGet(conversationStore', conversationStore[i].key)
                                 = conversationStore[i].val
                 /\ ~MapHas(conversationStore, sid) =>
                       conversationStore' = conversationStore]_vars

\* Session 1 has been deleted while a later request on it, which read its two
\* turns, awaits the collaborator; the other session is still stored.
C13_Witness ==
    /\ call.op = "delete" /\ call.arg = 1
    /\ ~MapHas(conversationStore, 1)
    /\ \E p \in Slots : req[p].pc = "awaiting" /\ req[p].sid = 1 /\ Len(req[p].history) = 2
    /\ Len(conversationStore) = 1
    /\ conversationStore[1].key = Uuid(1)
    /\ Len(conversationStore[1].val) = 2

(***************************************************************************)
(* Further claims about the routes (Spec)                                  *)
(***************************************************************************)
\* C14: the response of an exchange carries the session id the request
\* supplied, whether the collaborator call succeeded or failed; for a request
\* without one it carries an id that no client supplied and the store did not
\* hold; on success the exchange's two turns are stored under the id of the
\* response and no other session is touched.
C14_SessionIdentity ==
    [][\A p \in Slots :
          (req[p].pc = "awaiting" /\ req'[p].pc = "done") =>
              LET id == res'[p].body.conversationId
              IN  /\ req[p].cid # NoId => id = req[p].cid
                  /\ req[p].cid = NoId =>
                        /\ id \notin ClientIds \cup {NoId}
                        /\ ~MapHas(conversationStore, id)
                  /\ req'[p].outcome \in AnswerOutcomes =>
                        /\ res'[p].body.success = TRUE
                        /\ MapHas(conversationStore', id)
                        /\ LastN(MapGet(conversationStore', id), 2)
                              = <<Turn("user", req[p].xid), Turn("assistant", req[p].xid)>>
                        /\ \A i \in 1..Len(conversationStore) :
                              conversationStore[i].key # id =>
                                  conversationStore'[i] = conversationStore[i]]_vars

\* A request that supplied id 1 is answered after a failed collaborator call
\* with that id, while the store holds the session of an earlier request
\* without id under the first fresh id.
C14_Witness ==
    \E p \in Slots :
        /\ req[p].pc = "done" /\ req[p].outcome \in FailureOutcomes
        /\ req[p].cid = 1 /\ res[p].body.conversationId = 1
        /\ ~MapHas(conversationStore, 1)
        /\ MapHas(conversationStore, Uuid(1))
        /\ Len(MapGet(conversationStore, Uuid(1))) = 2

\* The entries of store t that store s does not hold as they are.
NewEntries(s, t) == {i \in 1..Len(t) : \A j \in 1..Len(s) : s[j] # t[i]}

\* C15: the step in which an exchange is answered successfully appends to
\* its session the user turn of its question and then the assistant turn of
\* the collaborator's answer, two turns and no more; no other step adds or
\* changes a session, and while a request has not been answered none of its
\* turns is in the store.
C15_ExchangeAppendsPairAfterAnswer ==
    /\ [][\A p \in Slots :
            (req[p].pc = "awaiting" /\ req'[p].pc = "done"
                /\ req'[p].outcome \in AnswerOutcomes) =>
                /\ MapHas(conversationStore', req[p].sid)
                /\ MapGet(conversationStore', req[p].sid)
                      = LastN(getConversationContext(conversationStore, req[p].sid)
                                 \o <<Turn("user", req[p].xid),
                                      Turn("assistant", req[p].xid)>>, HistoryCap)]_vars
    /\ [][NewEntries(conversationStore, conversationStore') # {} =>
             \E p \in Slots :
                 /\ req[p].pc = "awaiting" /\ req'[p].pc = "done"
                 /\ req'[p].outcome \in AnswerOutcomes
                 /\ NewEntries(conversationStore, conversationStore')
                       = {i \in 1..Len(conversationStore') :
                             conversationStore'[i].key = req[p].sid}]_vars
    /\ [](\A p \in Slots :
            req[p].pc \in {"uploaded", "awaiting"} =>
                \A i \in 1..Len(conversationStore) :
                    \A j \in 1..Len(conversationStore[i].val) :
                        conversationStore[i].val[j].content # req[p].xid)

\* A follow-up answered with a chart: its session holds the pair of the
\* exchange that created it followed by the follow-up's pair.
C15_Witness ==
    \E p \in Slots :
        /\ req[p].pc = "done" /\ req[p].route = "followup"
        /\ req[p].outcome \in ChartBlocks /\ req[p].xid = 2
        /\ MapHas(conversationStore, req[p].sid)
        /\ MapGet(conversationStore, req[p].sid)
              = <<Turn("user", 1), Turn("assistant", 1), Turn("user", 2), Turn("assistant", 2)>>

(***************************************************************************)
(* The client's analyzer (file-analyzer.js).  A record is a JavaScript     *)
(* object: its fields in insertion order.  A value is one of               *)
(*   "num"      a number                  "numstr"  a string such as "12"  *)
(*   "partial"  a string such as "12abc"  "text"    a string such as "abc" *)
(*   "datestr"  a string such as "2024-01-05"       "date"  a Date object  *)
(*   "empty"    the empty string          "null"    null                   *)
(* and "undefined" is what reading an absent field gives.                  *)
(***************************************************************************)
Cells == {"num", "numstr", "partial", "text", "datestr", "date", "empty", "null"}

\* How Date.parse treats strings of digits is left to the engine.
Engines == {"strict", "lenient"}

Field(k, v) == [k |-> k, v |-> v]

\* Object.keys(row)
Keys(row) == [i \in 1..Len(row) |-> row[i].k]

\* row[column]
Get(row, column) ==
    IF \E i \in 1..Len(row) : row[i].k = column
    THEN row[CHOOSE i \in 1..Len(row) : row[i].k = column].v
    ELSE "undefined"

Range(seq) == {seq[i] : i \in 1..Len(seq)}

\* val !== null && val !== undefined && val !== ''
Present(val) == val \notin {"null", "undefined", "empty"}

\* !isNaN(parseFloat(value)): parseFloat reads a leading number
ParsesAsFloat(value) == value \in {"num", "numstr", "partial", "datestr"}

\* isNumeric: !isNaN(parseFloat(value)) && isFinite(value)
isNumeric(value) == ParsesAsFloat(value) /\ value \in {"num", "numstr"}

\* isNumericArray
isNumericArray(arr) == \A i \in 1..Len(arr) : isNumeric(arr[i])

\* !isNaN(Date.parse(val))
DateParses(val, engine) ==
    \/ val \in {"datestr", "date"}
    \/ engine = "lenient" /\ val \in {"num", "numstr", "partial"}

\* isDateArray
isDateArray(arr, engine) == \A i \in 1..Len(arr) : DateParses(arr[i], engine)

\* The values of a column, one per record.
Column(data, column) == [i \in 1..Len(data) |-> Get(data[i], column)]

\* analyzeDataStructure, the type of one column
ColumnType(values, engine) ==
    LET nonEmptyValues == SelectSeq(values, Present)
    IN  IF nonEmptyValues = <<>> THEN "unknown"
        ELSE LET firstValue == nonEmptyValues[1]
             IN  IF firstValue = "num" \/ isNumericArray(nonEmptyValues) THEN "numeric"
                 ELSE IF firstValue = "date" \/ isDateArray(nonEmptyValues, engine)
                      THEN "date"
                 ELSE "text"

\* analyzeDataStructure (the statistical summaries left out)
analyzeDataStructure(data, engine) ==
    IF Len(data) = 0
    THEN [totalRows |-> 0, columns |-> <<>>, columnTypes |-> [c \in {} |-> "unknown"],
          missingValues |-> 0, duplicateRows |-> 0]
    ELSE LET sample == data[1]
             columns == Keys(sample)
         IN  [totalRows |-> Len(data),
              columns |-> columns,
              columnTypes |-> [c \in Range(columns) |-> ColumnType(Column(data, c), engine)],
              missingValues |->
                  Cardinality({<<i, c>> \in (1..Len(data)) \X Range(columns) :
                                  ~Present(Get(data[i], c))}),
              duplicateRows |-> Len(data) - Cardinality(Range(data))]

RECURSIVE SeqsUpTo(_, _)
\* The sequences over S of length at most n.
SeqsUpTo(S, n) ==
    IF n = 0 THEN {<<>>}
    ELSE LET shorter == SeqsUpTo(S, n - 1)
         IN  shorter \cup {Append(q, x) : q \in shorter, x \in S}

\* new Date(value) is a valid date
IsValidDate(value, engine) ==
    \/ value \in {"num", "datestr", "date", "null"}
    \/ engine = "lenient" /\ value \in {"numstr", "partial"}

NoChart == [type |-> "null"]

\* prepareChartConfig (options left out): the first numeric column charted
\* over the first date column, or over "Item n" labels.
prepareChartConfig(data, analysis, engine) ==
    LET numericColumns == SelectSeq(analysis.columns,
                                    LAMBDA c : analysis.columnTypes[c] = "numeric")
        dateColumns == SelectSeq(analysis.columns,
                                 LAMBDA c : analysis.columnTypes[c] = "date")
        head == SubSeq(data, 1, Min(Len(data), ChartRows))
    IN  IF Len(data) = 0 \/ numericColumns = <<>> THEN NoChart
        ELSE LET chartColumn == numericColumns[1]
                 values == SelectSeq(Column(head, chartColumn), ParsesAsFloat)
                 labels ==
                     IF dateColumns # <<>>
                     THEN [i \in 1..Len(head) |->
                              IF IsValidDate(Get(head[i], dateColumns[1]), engine)
                              THEN "iso" ELSE "Invalid Date"]
                     ELSE [i \in 1..Len(values) |-> "Item"]
             IN  IF values = <<>> THEN NoChart
                 ELSE [type |-> "line", labels |-> labels,
                       datasets |-> <<[label |-> chartColumn, data |-> values]>>]

\* analyzeFile, once the parser has given its data
AnalyzeFile(data, engine) ==
    /\ call = NoCall
    /\ LET analysis == analyzeDataStructure(data, engine)
           chartConfig == prepareChartConfig(data, analysis, engine)
       IN  call' = [op |-> "analyzeFile", arg |-> [data |-> data, engine |-> engine],
                    out |-> [analysis |-> analysis, chartConfig |-> chartConfig]]
    /\ UNCHANGED <<conversationStore, reqVars, appended, api>>

(***************************************************************************)
(* parseJSON.  A document is text that JSON.parse accepts, given here by   *)
(* the value it denotes, or text it rejects (empty text among it).         *)
(***************************************************************************)
JsonRows == {<<Field("a", "num")>>, <<Field("a", "text"), Field("b", "null")>>}

JsonValues ==
    {[kind |-> "array", items |-> d] : d \in SeqsUpTo(JsonRows, MaxDataRows)}
        \cup {[kind |-> "object", fields |-> r] : r \in JsonRows \cup {<<>>}}
        \cup {[kind |-> k] : k \in {"null", "number", "string", "boolean"}}

JsonDocs ==
    {[valid |-> TRUE, value |-> v] : v \in JsonValues}
        \cup {[valid |-> FALSE, text |-> t] : t \in {"empty", "blank", "garbage"}}

\* typeof data
TypeOf(value) == IF value.kind \in {"array", "object", "null"} THEN "object" ELSE value.kind

\* parseJSON: what the promise settles to
parseJSON(doc) ==
    IF ~doc.valid
    THEN [ok |-> FALSE, error |-> "JSON parsing error"]
    ELSE LET data == doc.value
         IN  IF data.kind = "array" THEN [ok |-> TRUE, data |-> data.items]
             ELSE IF TypeOf(data) = "object"
                  THEN [ok |-> TRUE,
                        data |-> <<IF data.kind = "object" THEN data.fields ELSE "null">>]
             ELSE [ok |-> FALSE, error |-> "JSON must be an array or object"]

ParseJSON(doc) ==
    /\ call = NoCall
    /\ call' = [op |-> "parseJSON", arg |-> doc, out |-> parseJSON(doc)]
    /\ UNCHANGED <<conversationStore, reqVars, appended, api>>

(***************************************************************************)
(* ChartManager.determineChartType, in its two versions.  A label is       *)
(* date-like ("date": it matches one of isDateData's patterns) or not.     *)
(***************************************************************************)
LabelKinds == {"date", "text"}

Points == {5, 45, 50}

\* Chart data: labels and at most one dataset.
Charts ==
    {[labels |-> l, datasets |-> <<[data |-> d]>>] :
        l \in SeqsUpTo(LabelKinds, MaxLabels), d \in SeqsUpTo(Points, MaxPoints)}
        \cup {[labels |-> l, datasets |-> <<>>] : l \in SeqsUpTo(LabelKinds, 1)}

RECURSIVE Sum(_)
\* data.reduce((a, b) => a + b, 0)
Sum(data) == IF data = <<>> THEN 0 ELSE Head(data) + Sum(Tail(data))

\* Math.abs(x)
Abs(x) == IF x < 0 THEN -x ELSE x

\* isDateData: some label matches a date pattern
isDateData(labels) == \E i \in 1..Len(labels) : labels[i] = "date"

\* determineChartType (the version with the pie rule first)
determineChartType(data) ==
    IF data.datasets = <<>> THEN "bar"
    ELSE LET labels == data.labels
             dataPoints == data.datasets[1].data
         IN  IF Len(labels) <= 6 /\ Abs(Sum(dataPoints) - 100) < 5 THEN "pie"
             ELSE IF Len(labels) >= 5 /\ isDateData(labels) THEN "line"
             ELSE "bar"

\* isSequentialData: more than 70% of the steps go up, or more than 70% down
isSequentialData(data) ==
    IF Len(data) < 3 THEN FALSE
    ELSE LET increasing == Cardinality({i \in 2..Len(data) : data[i] > data[i - 1]})
             decreasing == Cardinality({i \in 2..Len(data) : data[i] < data[i - 1]})
             total == Len(data) - 1
         IN  10 * increasing > 7 * total \/ 10 * decreasing > 7 * total

\* isPercentageData
isPercentageData(data) == Abs(Sum(data) - 100) < 5

\* determineChartType (chart.js, and the ChartManager of api.js)
determineChartTypeBarFirst(data) ==
    IF data.datasets = <<>> THEN "bar"
    ELSE LET dataset == data.datasets[1]
         IN  IF Len(data.labels) <= 7 THEN "bar"
             ELSE IF isSequentialData(dataset.data) THEN "line"
             ELSE IF isPercentageData(dataset.data) THEN "pie"
             ELSE "bar"

\* A chart of type 'auto' is drawn: one of the two versions picks its type.
DetermineChartType(data) ==
    /\ call = NoCall
    /\ \/ call' = [op |-> "determineChartType", by |-> "part_003", arg |-> data,
                   out |-> determineChartType(data)]
       \/ call' = [op |-> "determineChartType", by |-> "chart.js", arg |-> data,
                   out |-> determineChartTypeBarFirst(data)]
    /\ UNCHANGED <<conversationStore, reqVars, appended, api>>

(***************************************************************************)
(* findMostCommon, on the present values of a text column.  The values are *)
(* strings, so that val.toString() is val.  The percentage is left out.    *)
(***************************************************************************)
Words == {"x", "y", "z"}

\* The non-empty columns of at most n words.
TextColumns(n) == SeqsUpTo(Words, n) \ {<<>>}

RECURSIVE forEachCount(_, _, _, _)
\* arr.forEach(val => { counts[key] = (counts[key] || 0) + 1;
\*                      if (counts[key] > maxCount) { ... } })
forEachCount(arr, counts, maxCount, mostCommon) ==
    IF arr = <<>> THEN [value |-> mostCommon, count |-> maxCount]
    ELSE LET val == Head(arr)
             n == counts[val] + 1
             counted == [counts EXCEPT ![val] = n]
         IN  IF n > maxCount
             THEN forEachCount(Tail(arr), counted, n, val)
             ELSE forEachCount(Tail(arr), counted, maxCount, mostCommon)

\* findMostCommon(arr)
findMostCommon(arr) == forEachCount(arr, [w \in Words |-> 0], 0, arr[1])

\* analyzeDataStructure profiles a text column.
FindMostCommon(arr) ==
    /\ call = NoCall
    /\ call' = [op |-> "findMostCommon", arg |-> arr, out |-> findMostCommon(arr)]
    /\ UNCHANGED <<conversationStore, reqVars, appended, api>>

(***************************************************************************)
(* SpecClient: the client's functions, each applied to every input of a    *)
(* bounded set; a result is observed before the next call.                 *)
(***************************************************************************)
\* Records with the fields a and b, in that order.
TableRows == {<<Field("a", x), Field("b", y)>> : x \in Cells, y \in Cells}

\* The datasets of at most n such records.
Datasets(n) == SeqsUpTo(TableRows, n)

\* Records of a JSON array: objects with the fields a and b in either order,
\* or with one of them only.
JsonRecords ==
    LET V == {"num", "null"}
    IN  {<<Field("a", x), Field("b", y)>> : x \in V, y \in V}
            \cup {<<Field("b", y), Field("a", x)>> : x \in V, y \in V}
            \cup {<<Field(k, x)>> : k \in {"a", "b"}, x \in V}

\* The datasets of at most n such records.
JsonDatasets(n) == SeqsUpTo(JsonRecords, n)

NextClient ==
    \/ call = NoCall /\ \E data \in Datasets(MaxDataRows) \cup JsonDatasets(MaxDataRows),
                             engine \in Engines :
                             AnalyzeFile(data, engine)
    \/ call = NoCall /\ \E doc \in JsonDocs : ParseJSON(doc)
    \/ call = NoCall /\ \E data \in Charts : DetermineChartType(data)
    \/ call = NoCall /\ \E arr \in TextColumns(MaxColumn) : FindMostCommon(arr)
    \/ Observed

SpecClient == Init /\ [][NextClient]_vars

\* C16: every chart that prepareChartConfig produces has as many labels as
\* its series has values.
C16_LabelsMatchValues ==
    (call.op = "analyzeFile" /\ call.out.chartConfig # NoChart) =>
        \A i \in 1..Len(call.out.chartConfig.datasets) :
            Len(call.out.chartConfig.labels) = Len(call.out.chartConfig.datasets[i].data)

\* C19: a column with present values is typed numeric if and only if every
\* present value parses as a finite number.
C19_NumericIffAllNumeric ==
    call.op = "analyzeFile" =>
        \A c \in DOMAIN call.out.analysis.columnTypes :
            LET present == SelectSeq(Column(call.arg.data, c), Present)
            IN  present # <<>> =>
                    (call.out.analysis.columnTypes[c] = "numeric"
                        <=> \A i \in 1..Len(present) : isNumeric(present[i]))

\* C17: parseJSON gives a top-level array as the dataset, a single object as
\* a dataset of that one record, and fails, giving no dataset, for every
\* other value and for every document that is not JSON.
C17_JsonArrayObjectOrError ==
    call.op = "parseJSON" =>
        LET doc == call.arg
        IN  IF doc.valid /\ doc.value.kind = "array"
            THEN call.out.ok /\ call.out.data = doc.value.items
            ELSE IF doc.valid /\ doc.value.kind = "object"
                 THEN call.out.ok /\ call.out.data = <<doc.value.fields>>
            ELSE ~call.out.ok /\ "data" \notin DOMAIN call.out

\* C18: empty input is never forwarded to the collaborator: no request that
\* awaits the collaborator was made from blank text.
C18_EmptyInputNotForwarded ==
    \A p \in Slots : req[p].pc = "awaiting" => req[p].input # "blank"

\* C20: for a chart of at most 6 labels whose first series sums to within 5
\* of 100, determineChartType answers pie, whatever the labels are.
C20_PieRuleFirst ==
    (/\ call.op = "determineChartType"
     /\ call.arg.datasets # <<>>
     /\ Len(call.arg.labels) <= 6
     /\ Abs(Sum(call.arg.datasets[1].data) - 100) < 5) =>
        call.out = "pie"

\* C21: when neither the pie rule nor the temporal-line rule matches,
\* ChartManager.determineChartType answers bar for at most 7 labels and line
\* for more than 7.
C21_BarUpToSevenElseLine ==
    (/\ call.op = "determineChartType"
     /\ call.by = "part_003"
     /\ call.arg.datasets # <<>>
     /\ ~(Len(call.arg.labels) <= 6 /\ Abs(Sum(call.arg.datasets[1].data) - 100) <= 5)
     /\ ~(Len(call.arg.labels) >= 5 /\ isDateData(call.arg.labels)))
        => call.out = (IF Len(call.arg.labels) <= 7 THEN "bar" ELSE "line")

\* The number of times v occurs in arr.
Occurrences(arr, v) == Cardinality({i \in 1..Len(arr) : arr[i] = v})

\* C22: findMostCommon gives the greatest occurrence count of the column
\* and, of the values that occur that often, the one met first in the column.
C22_MostCommonFirstMet ==
    call.op = "findMostCommon" =>
        LET arr == call.arg
            best == {i \in 1..Len(arr) :
                        \A j \in 1..Len(arr) :
                            Occurrences(arr, arr[j]) <= Occurrences(arr, arr[i])}
            first == CHOOSE i \in best : \A j \in best : i <= j
        IN  /\ call.out.count = Occurrences(arr, arr[first])
            /\ call.out.value = arr[first]

\* A record as its field-to-value pairs, whatever the order of its fields.
Pairs(row) == {<<row[i].k, row[i].v>> : i \in 1..Len(row)}

\* C23: the duplicate-row count is the number of rows minus the number of
\* distinct records, two records being the same when they have the same
\* field-to-value pairs in whatever order.
C23_DuplicatesIgnoreFieldOrder ==
    call.op = "analyzeFile" =>
        call.out.analysis.duplicateRows =
            Len(call.arg.data)
                - Cardinality({Pairs(call.arg.data[i]) : i \in 1..Len(call.arg.data)})

\* The fields that occur in some record of the dataset.
AllKeys(data) == UNION {Range(Keys(data[i])) : i \in 1..Len(data)}

\* C24: analyzeDataStructure profiles the union of the keys of all records,
\* and its missing count counts, for every such field, the records where
\* the field is absent or empty.
C24_ColumnsAreUnionOfKeys ==
    call.op = "analyzeFile" =>
        LET data == call.arg.data
        IN  /\ Range(call.out.analysis.columns) = AllKeys(data)
            /\ call.out.analysis.missingValues =
                   Cardinality({<<i, c>> \in (1..Len(data)) \X AllKeys(data) :
                                   ~Present(Get(data[i], c))})

(***************************************************************************)
(* Claims about the store under the routes (Spec, SpecRace)                *)
(***************************************************************************)
\* The step is one of slot p's handler and does not end a successful call.
FailingStep(p) ==
    /\ req'[p] # req[p]
    /\ req[p].pc # "done"
    /\ ~(req'[p].pc = "done" /\ req'[p].outcome \in AnswerOutcomes)

\* C25: a request whose collaborator call fails (no connection, an error
\* status, a payload without content) appends no turn: none of its steps
\* changes the store, neither the set of session ids nor any turn list, and
\* the id generated for it is not in the store when it is answered.
C25_FailureLeavesStore ==
    [][\A p \in Slots :
          FailingStep(p) =>
              /\ conversationStore' = conversationStore
              /\ (req'[p].outcome \in FailureOutcomes /\ req[p].cid = NoId)
                     => ~MapHas(conversationStore', req[p].sid)]_vars

\* A session is stored, and a later request, which took a generated id, has
\* been answered after its call failed.
C25_Witness ==
    /\ conversationStore # <<>>
    /\ \E p \in Slots :
          /\ req[p].pc = "done"
          /\ req[p].outcome \in FailureOutcomes
          /\ req[p].cid = NoId
          /\ req[p].sid # NoId

(***************************************************************************)
(* SpecRace: a client has RaceWarmup exchanges on its session, one after   *)
(* the other; other clients then open RaceFill sessions, one after the     *)
(* other, which takes the store to the sweep's threshold; then the client  *)
(* sends up to MaxRace requests on its id, follow-ups and texts, that may  *)
(* overlap and whose calls may fail; from then on the client may clear its *)
(* session at any moment between the handlers' steps.  The timer may fire  *)
(* at any such moment from start-up.                                       *)
(***************************************************************************)
Racing == started >= RaceWarmup + RaceFill

NextRace ==
    \/ \E p \in Slots :
          /\ started < RaceWarmup
          /\ AllIdle
          /\ SubmitFollowup(p, "ok", 1)
    \/ \E p \in Slots :
          /\ started >= RaceWarmup /\ ~Racing
          /\ AllIdle
          /\ SubmitText(p, "ok", SweepText, NoId)
    \/ \E p \in Slots :
          /\ Racing /\ started < RaceWarmup + RaceFill + MaxRace
          /\ Quiet
          /\ \/ SubmitFollowup(p, "ok", 1)
             \/ SubmitText(p, "ok", SweepText, 1)
    \/ \E p \in Slots, outcome \in ConcOutcomes :
          /\ Quiet
          /\ ~Racing => outcome \notin FailureOutcomes
          /\ CollabReply(p, outcome)
    \/ \E p \in Slots : Deliver(p)
    \/ Racing /\ Quiet /\ ClearConversation(1)
    \/ Quiet /\ Sweep

SpecRace == Init /\ [][NextRace]_vars

\* C26: between handler steps every stored session has an even number of
\* turns, at least 2 and at most 20, alternately user and assistant
\* beginning with user, also once turns have been evicted at the cap.
C26_TurnsAlternate ==
    \A i \in 1..Len(conversationStore) :
        LET turns == conversationStore[i].val
        IN  /\ Len(turns) % 2 = 0
            /\ Len(turns) >= 2 /\ Len(turns) <= HistoryCap
            /\ \A j \in 1..Len(turns) :
                  turns[j].role = (IF j % 2 = 1 THEN "user" ELSE "assistant")

\* The store is at the sweep's threshold, the client's session is full and
\* has lost its oldest turns at the cap, and a further request on it is
\* awaiting its call.
C26_Witness ==
    /\ Len(conversationStore) > SweepThreshold
    /\ MapHas(conversationStore, 1)
    /\ Len(MapGet(conversationStore, 1)) = HistoryCap
    /\ Len(Hist(1)) > HistoryCap
    /\ \E p \in Slots : req[p].pc = "awaiting" /\ req[p].sid = 1

\* The turns of the exchange of the handler with locals r.
OwnTurns(r) == <<Turn("user", r.xid), Turn("assistant", r.xid)>>

\* The step ends slot p's call with an answer.
Answered(p) ==
    req[p].pc = "awaiting" /\ req'[p].pc = "done" /\ req'[p].outcome \in AnswerOutcomes

\* C27: the prior turns a follow-up sends to the collaborator are the
\* session's turn list as it is when the request starts processing; they do
\* not change while the call is pending, whatever other exchanges store in
\* the meantime; and when the call is answered the exchange's own turns are
\* appended after whatever the session holds by then.
C27_ContextIsSnapshotAtStart ==
    /\ [][\A p \in Slots :
              (req[p].pc = "idle" /\ req'[p].pc = "awaiting" /\ req'[p].followUp) =>
                  req'[p].history = getConversationContext(conversationStore, req'[p].sid)]_vars
    /\ [][\A p \in Slots :
              (req[p].pc = "awaiting" /\ req'[p].pc = "awaiting") =>
                  req'[p].history = req[p].history]_vars
    /\ [][\A p \in Slots :
              Answered(p) =>
                  getConversationContext(conversationStore', req[p].sid) =
                      LastN(getConversationContext(conversationStore, req[p].sid)
                                \o OwnTurns(req[p]), HistoryCap)]_vars

\* A follow-up is awaiting its call with the turns it read at its start,
\* and the session now holds those turns followed by the turns of another
\* exchange, which started later and was stored in the meantime.
C27_Witness ==
    \E p \in Slots :
        /\ req[p].pc = "awaiting" /\ req[p].followUp
        /\ req[p].history # <<>>
        /\ MapHas(conversationStore, req[p].sid)
        /\ MapGet(conversationStore, req[p].sid) # req[p].history
        /\ \E x \in (req[p].xid + 1)..started :
              MapGet(conversationStore, req[p].sid) =
                  LastN(req[p].history \o <<Turn("user", x), Turn("assistant", x)>>,
                        HistoryCap)

UnknownIdArrives(p) ==
    /\ req[p].pc = "idle" /\ req'[p].pc # "idle"
    /\ req'[p].route \in {"followup", "text"}
    /\ req'[p].question = "ok"
    /\ req'[p].cid # NoId
    /\ ~MapHas(conversationStore, req'[p].cid)

Shift(queue) == IF queue = <<>> THEN queue ELSE Tail(queue)

\* s without its i-th element
Without(s, i) == SubSeq(s, 1, i - 1) \o SubSeq(s, i + 1, Len(s))

\* processQueue from the test of its while loop to its next await or its end
WhileLoop(a, throws) ==
    IF Len(a.requestQueue) > 0 /\ a.onLine
    THEN LET request == a.requestQueue[1]
         IN  IF throws
             THEN [a EXCEPT !.log = Append(@, request), !.isProcessingQueue = FALSE]
             ELSE [a EXCEPT !.log = Append(@, request), !.loops = Append(@, request)]
    ELSE [a EXCEPT !.isProcessingQueue = FALSE]

\* processQueue() up to its first await or its return
processQueue(a, throws) ==
    IF Len(a.requestQueue) = 0 \/ ~a.onLine
    THEN [a EXCEPT !.isProcessingQueue = FALSE]
    ELSE WhileLoop([a EXCEPT !.isProcessingQueue = TRUE], throws)

\* requestQueue.push(request)
Pushed(a) == [a EXCEPT !.requestQueue = Append(@, a.queued + 1), !.queued = @ + 1]

\* A plausible slip: processQueue is called whether or not it is running.
queueRequestNoFlag(a, throws) == processQueue(Pushed(a), throws)

\* queueRequest(request)
queueRequest(a, throws) ==
    IF ~Pushed(a).isProcessingQueue THEN processQueue(Pushed(a), throws) ELSE Pushed(a)

QueueRequest(throws) ==
    /\ api.queued < MaxQueued
    /\ api' = queueRequest(api, throws)
    /\ UNCHANGED <<conversationStore, reqVars, appended, call>>

\* The fn awaited by the i-th suspended loop resolves: shift, next turn of
\* the loop.
FnResolves(i, throws) ==
    /\ i \in 1..Len(api.loops)
    /\ api' = WhileLoop([api EXCEPT !.loops = Without(@, i),
                                    !.requestQueue = Shift(@),
                                    !.resolved = @ \cup {api.loops[i]}], throws)
    /\ UNCHANGED <<conversationStore, reqVars, appended, call>>

\* The fn awaited by the i-th suspended loop rejects: catch, break.
FnRejects(i) ==
    /\ i \in 1..Len(api.loops)
    /\ api' = [api EXCEPT !.loops = Without(@, i), !.isProcessingQueue = FALSE]
    /\ UNCHANGED <<conversationStore, reqVars, appended, call>>

\* navigator.onLine changes.
Connection ==
    /\ api' = [api EXCEPT !.onLine = ~@]
    /\ UNCHANGED <<conversationStore, reqVars, appended, call>>

NextQueue ==
    \/ \E throws \in BOOLEAN : QueueRequest(throws)
    \/ \E i \in 1..MaxQueued, throws \in BOOLEAN : FnResolves(i, throws)
    \/ \E i \in 1..MaxQueued : FnRejects(i)
    \/ Connection

SpecQueue == Init /\ [][NextQueue]_vars

\* C30: the client's queue.  At most one request's fn is pending, and it is
\* that of the request at the head of the queue, with isProcessingQueue set
\* exactly while it is pending; requests are started in the order in which
\* they were queued, each start being of the head of the queue; a request
\* leaves the queue only once its fn has resolved; a queueRequest call made
\* while processing is running starts nothing; and when a request's fn
\* fails, processing ends with the queue as it was, that request at its
\* head, and isProcessingQueue false.
C30_QueueIsSerialFifo ==
    /\ [](/\ Len(api.loops) <= 1
          /\ api.isProcessingQueue <=> api.loops # <<>>
          /\ api.loops # <<>> =>
                 (api.requestQueue # <<>> /\ api.loops[1] = api.requestQueue[1])
          /\ \A i, j \in 1..Len(api.log) : i < j => api.log[i] <= api.log[j]
          /\ \A k \in 1..api.queued : k \in Range(api.requestQueue) \/ k \in api.resolved)
    /\ [][api'.log # api.log =>
              (/\ api'.requestQueue # <<>>
               /\ api'.log = Append(api.log, api'.requestQueue[1]))]_vars
    /\ [][(api'.queued # api.queued /\ api.isProcessingQueue) =>
              (api'.loops = api.loops /\ api'.log = api.log)]_vars
    /\ [][(Len(api'.loops) < Len(api.loops) /\ api'.resolved = api.resolved) =>
              (/\ api'.requestQueue = api.requestQueue
               /\ api'.requestQueue[1] = api.loops[1]
               /\ api'.loops = <<>>
               /\ api'.log = api.log
               /\ ~api'.isProcessingQueue)]_vars

\* The first request failed and stayed queued; the second queueRequest call
\* started it again and it resolved; the second request is now pending, and
\* a third was queued while processing was running.
C30_Witness ==
    /\ api.log = <<1, 1, 2>>
    /\ api.requestQueue = <<2, 3>>
    /\ api.resolved = {1}
    /\ api.loops = <<2>>
    /\ api.isProcessingQueue
====
